---- MODULE Spec2Model ----
(***************************************************************************)
(* Model of the download version resolution of src/src/config.rs:          *)
(* GlobalMeta::new and the functions it calls (to_binaries_per_version,    *)
(* parse_files, pivot, download_path, gold_download_path, boil).           *)
(*                                                                         *)
(* A Rust String is a sequence of one-character strings, so that           *)
(* replace, contains, format! and natord::compare work on characters.      *)
(* An Option<T> is a sequence of length 0 (None) or 1 (Some).              *)
(***************************************************************************)
EXTENDS Integers, Sequences, FiniteSets, TLC

VARIABLES
    pc,                \* position inside GlobalMeta::new
    production,        \* argument `production`
    url_base,          \* argument `url_base`
    fs,                \* the three source documents on disk
    downloads,         \* local `downloads: File`
    downloads_gold,    \* local `downloads_gold: File`
    platforms,         \* local `platforms: Vec<PlatformInfo>`
    version_binaries,  \* local `version_binaries: Vec<BinaryVersion>`
    file_versions,     \* local `file_versions: HashMap<String, Vec<String>>`
    version_downloads, \* local `version_downloads: Vec<VersionDownloads>`
    outcome,           \* how the call ended: "running", "Ok", "IOError", "panic"
    published          \* Option<GlobalMeta>: the value returned to the caller

vars == <<pc, production, url_base, fs, downloads, downloads_gold, platforms,
          version_binaries, file_versions, version_downloads, outcome, published>>

-----------------------------------------------------------------------------
(* Bounds of the input space. *)

MaxDirs == 2        \* children of a snapshot's root
MaxPlatforms == 1   \* platforms of the catalog
MaxDownloads == 1   \* DownloadInfo entries of one platform

-----------------------------------------------------------------------------
(* Strings and options. *)

None == <<>>
Some(x) == <<x>>
IsSome(o) == Len(o) = 1
Unwrap(o) == o[1]

\* str::replace(from, to) for single characters
Replace(s, from, to) == [i \in 1..Len(s) |-> IF s[i] = from THEN to ELSE s[i]]

\* str::find(c).is_some()
Contains(s, c) == \E i \in 1..Len(s) : s[i] = c

RECURSIVE Concat(_)
Concat(parts) == IF parts = <<>> THEN <<>> ELSE Head(parts) \o Concat(Tail(parts))

SeqsUpTo(S, n) == UNION {[1..k -> S] : k \in 0..n}

Range(s) == {s[i] : i \in 1..Len(s)}

-----------------------------------------------------------------------------
(* natord::compare, the comparator of the sort in parse_files. *)

Digits == <<"0", "1", "2", "3", "4", "5", "6", "7", "8", "9">>

IsDigit(c) == \E d \in 1..10 : Digits[d] = c

\* char::to_digit(10)
ToDigit(c) == (CHOOSE d \in 1..10 : Digits[d] = c) - 1

\* The characters of the model in code point order.
CodePoints == <<".", "/", "0", "1", "2", "3", "4", "5", "6", "7", "8", "9", "_",
                "a", "b", "c", "d", "e", "f", "g", "h", "i", "l", "m", "n", "o",
                "p", "r", "s", "t", "u", "x">>

CodePoint(c) == CHOOSE k \in 1..Len(CodePoints) : CodePoints[k] = c

CmpInt(a, b) == IF a < b THEN "Less" ELSE IF a > b THEN "Greater" ELSE "Equal"

RECURSIVE NatordNonDigits(_, _, _)
RECURSIVE NatordDigitsLeft(_, _, _)
RECURSIVE NatordDigitsRight(_, _, _, _)

\* the 'digits_left loop: left-aligned matching (`015` < `12`)
NatordDigitsLeft(L, R, i) ==
    LET ld == i <= Len(L) /\ IsDigit(L[i])
        rd == i <= Len(R) /\ IsDigit(R[i])
    IN  IF ld /\ rd
        THEN LET c == CmpInt(ToDigit(L[i]), ToDigit(R[i]))
             IN  IF c # "Equal" THEN c ELSE NatordDigitsLeft(L, R, i + 1)
        ELSE IF ld THEN "Greater"
        ELSE IF rd THEN "Less"
        ELSE NatordNonDigits(L, R, i)

\* the 'digits_right loop: right-aligned matching (`15` < `123`)
NatordDigitsRight(L, R, i, lastcmp) ==
    LET ld == i <= Len(L) /\ IsDigit(L[i])
        rd == i <= Len(R) /\ IsDigit(R[i])
    IN  IF ld /\ rd
        THEN NatordDigitsRight(L, R, i + 1,
                 IF lastcmp = "Equal" THEN CmpInt(ToDigit(L[i]), ToDigit(R[i]))
                 ELSE lastcmp)
        ELSE IF ld THEN "Greater"
        ELSE IF rd THEN "Less"
        ELSE IF lastcmp # "Equal" THEN lastcmp
        ELSE NatordNonDigits(L, R, i)

\* the 'nondigits loop; both iterators advance together (nothing is skipped)
NatordNonDigits(L, R, i) ==
    LET lp == i <= Len(L)
        rp == i <= Len(R)
    IN  IF lp /\ rp
        THEN IF IsDigit(L[i]) /\ IsDigit(R[i])
             THEN IF ToDigit(L[i]) = 0 \/ ToDigit(R[i]) = 0
                  THEN LET c == CmpInt(ToDigit(L[i]), ToDigit(R[i]))
                       IN  IF c # "Equal" THEN c ELSE NatordDigitsLeft(L, R, i + 1)
                  ELSE NatordDigitsRight(L, R, i + 1,
                                         CmpInt(ToDigit(L[i]), ToDigit(R[i])))
             ELSE LET c == CmpInt(CodePoint(L[i]), CodePoint(R[i]))
                  IN  IF c # "Equal" THEN c ELSE NatordNonDigits(L, R, i + 1)
        ELSE IF lp THEN "Greater"
        ELSE IF rp THEN "Less"
        ELSE "Equal"

natord_compare(left, right) == NatordNonDigits(left, right, 1)

-----------------------------------------------------------------------------
(* Version Extractor and Merger/Sorter. *)

\* to_binaries_per_version taking directories only
to_binaries_per_version_dirs(files) ==
    LET kept == SelectSeq(files.children,
                          LAMBDA child : /\ child.is_dir
                                         /\ child.children # <<>>
                                         /\ Contains(child.name, "_"))
    IN  [k \in 1..Len(kept) |->
            [version |-> Replace(kept[k].name, "_", "."),
             files   |-> [j \in 1..Len(kept[k].children) |-> kept[k].children[j].name]]]

\* to_binaries_per_version: one BinaryVersion per root child that has children
\* and an underscore in its name, in the order of the listing
to_binaries_per_version(files) ==
    LET kept == SelectSeq(files.children,
                          LAMBDA child : child.children # <<>> /\ Contains(child.name, "_"))
    IN  [k \in 1..Len(kept) |->
            [version |-> Replace(kept[k].name, "_", "."),
             files   |-> [j \in 1..Len(kept[k].children) |-> kept[k].children[j].name]]]

\* sort_cmp with the operands in the order of the closure's parameters:
\* oldest first
sort_cmp_ascending(a, b) == natord_compare(a.version, b.version)

\* the closure given to sort_by: reverse order, newest first
sort_cmp(a, b) == natord_compare(b.version, a.version)

\* Vec::sort_by is a stable sort: an element moves left only past elements
\* that compare Greater than it
RECURSIVE InsertSorted(_, _)
InsertSorted(s, x) ==
    IF s = <<>> \/ sort_cmp(s[Len(s)], x) # "Greater"
    THEN Append(s, x)
    ELSE Append(InsertSorted(SubSeq(s, 1, Len(s) - 1), x), s[Len(s)])

RECURSIVE SortFrom(_, _, _)
SortFrom(s, i, acc) ==
    IF i > Len(s) THEN acc ELSE SortFrom(s, i + 1, InsertSorted(acc, s[i]))

sort_by(s) == SortFrom(s, 1, <<>>)

\* MergeGold without the comparison of the versions
RECURSIVE MergeGold_any(_, _, _)
MergeGold_any(b, golds, j) ==
    IF j > Len(golds) THEN <<b, golds>>
    ELSE MergeGold_any([b EXCEPT !.files = @ \o golds[j].files],
                       [golds EXCEPT ![j].files = <<>>], j + 1)

\* the inner loop of the merge: Vec::append moves the gold files out of g,
\* leaving g.files empty
RECURSIVE MergeGold(_, _, _)
MergeGold(b, golds, j) ==
    IF j > Len(golds) THEN <<b, golds>>
    ELSE IF golds[j].version = b.version
         THEN MergeGold([b EXCEPT !.files = @ \o golds[j].files],
                        [golds EXCEPT ![j].files = <<>>], j + 1)
         ELSE MergeGold(b, golds, j + 1)

\* the outer loop of the merge, over the sorted standard buckets
RECURSIVE MergeAll(_, _, _)
MergeAll(bs, golds, i) ==
    IF i > Len(bs) THEN bs
    ELSE LET m == MergeGold(bs[i], golds, 1)
         IN  MergeAll([bs EXCEPT ![i] = m[1]], m[2], i + 1)

parse_files(files, gold_files) ==
    MergeAll(sort_by(to_binaries_per_version(files)),
             to_binaries_per_version(gold_files), 1)

-----------------------------------------------------------------------------
(* Filename Pivot. *)

\* PivotPush inserting at the front instead of pushing at the back
PivotPush_front(hash, name, version) ==
    IF name \in DOMAIN hash
    THEN [hash EXCEPT ![name] = <<version>> \o @]
    ELSE hash @@ (name :> <<version>>)

\* hash.entry(name).or_default().push(version)
PivotPush(hash, name, version) ==
    IF name \in DOMAIN hash
    THEN [hash EXCEPT ![name] = Append(@, version)]
    ELSE hash @@ (name :> <<version>>)

\* PivotFiles pushing a version once per bucket, however often the name occurs
RECURSIVE PivotFiles_once(_, _, _)
PivotFiles_once(hash, entry, j) ==
    IF j > Len(entry.files) THEN hash
    ELSE IF \E k \in 1..(j - 1) : entry.files[k] = entry.files[j]
         THEN PivotFiles_once(hash, entry, j + 1)
         ELSE PivotFiles_once(
                  IF entry.files[j] \in DOMAIN hash
                  THEN [hash EXCEPT ![entry.files[j]] = Append(@, entry.version)]
                  ELSE hash @@ (entry.files[j] :> <<entry.version>>),
                  entry, j + 1)

RECURSIVE PivotFiles(_, _, _)
PivotFiles(hash, entry, j) ==
    IF j > Len(entry.files) THEN hash
    ELSE PivotFiles(PivotPush(hash, entry.files[j], entry.version), entry, j + 1)

RECURSIVE PivotFrom(_, _, _)
PivotFrom(hash, bs, i) ==
    IF i > Len(bs) THEN hash
    ELSE PivotFrom(PivotFiles(hash, bs[i], 1), bs, i + 1)

EmptyMap == [x \in {} |-> <<>>]

pivot(binaries_per_version) == PivotFrom(EmptyMap, binaries_per_version, 1)

-----------------------------------------------------------------------------
(* URL Resolver. *)

FilesSegment == <<"/", "f", "i", "l", "e", "s", "/">>
GoldSegment == <<"/", "a", "p", "i", "/", "g", "o", "l", "d", "f", "i", "l", "e", "s", "/">>

\* download_path without the replacement of the dots
download_path_dotted(base, version, filename) ==
    Concat(<<base, FilesSegment, version, <<"/">>, filename>>)

download_path(base, version, filename) ==
    Concat(<<base, FilesSegment, Replace(version, ".", "_"), <<"/">>, filename>>)

gold_download_path(base, version, filename) ==
    Concat(<<base, GoldSegment, Replace(version, ".", "_"), <<"/">>, filename>>)

\* resolve_download clearing the download_url of an entry that does not resolve
resolve_download_clearing(download, hash, base) ==
    IF IsSome(download.filename)
       /\ Unwrap(download.filename) \in DOMAIN hash
       /\ hash[Unwrap(download.filename)] # <<>>
    THEN [download EXCEPT !.download_url =
             IF download.gold
             THEN Some(gold_download_path(base, hash[Unwrap(download.filename)][1],
                                          Unwrap(download.filename)))
             ELSE Some(download_path(base, hash[Unwrap(download.filename)][1],
                                     Unwrap(download.filename)))]
    ELSE [download EXCEPT !.download_url = None]

\* the body of the loop over platform.downloads
resolve_download(download, hash, base) ==
    IF IsSome(download.filename)
       /\ Unwrap(download.filename) \in DOMAIN hash
       /\ hash[Unwrap(download.filename)] # <<>>
    THEN LET filename == Unwrap(download.filename)
             first    == hash[filename][1]
         IN  [download EXCEPT !.download_url =
                 IF download.gold
                 THEN Some(gold_download_path(base, first, filename))
                 ELSE Some(download_path(base, first, filename))]
    ELSE download

\* the loop "Update the platforms with URLs"
resolve_urls(ps, hash, base) ==
    [p \in 1..Len(ps) |->
        [ps[p] EXCEPT !.downloads =
            [d \in 1..Len(ps[p].downloads) |-> resolve_download(ps[p].downloads[d], hash, base)]]]

-----------------------------------------------------------------------------
(* Download Boiler. *)

\* find_download returning the last entry with the filename
find_download_last(platform, filename) ==
    LET hits == SelectSeq(platform.downloads, LAMBDA d : d.filename = Some(filename))
    IN  IF hits = <<>> THEN None ELSE Some(hits[Len(hits)])

\* platform.downloads.iter().find(|download| download.filename.as_ref() == Some(filename))
find_download(platform, filename) ==
    LET hits == SelectSeq(platform.downloads, LAMBDA d : d.filename = Some(filename))
    IN  IF hits = <<>> THEN None ELSE Some(hits[1])

\* BoilFiles giving the badge to every match
RECURSIVE BoilFiles_badge(_, _, _, _, _)
BoilFiles_badge(acc, platform, files, j, first) ==
    IF j > Len(files) THEN acc
    ELSE LET found == SelectSeq(platform.downloads, LAMBDA d : d.filename = Some(files[j]))
         IN  IF found # <<>>
             THEN BoilFiles_badge(Append(acc, [found[1] EXCEPT !.icon = platform.platform_badge]),
                                  platform, files, j + 1, FALSE)
             ELSE BoilFiles_badge(acc, platform, files, j + 1, first)

\* the loop over version.files for one platform; `first` is the loop's flag
RECURSIVE BoilFiles(_, _, _, _, _)
BoilFiles(acc, platform, files, j, first) ==
    IF j > Len(files) THEN acc
    ELSE LET found == find_download(platform, files[j])
         IN  IF IsSome(found)
             THEN BoilFiles(Append(acc, [Unwrap(found) EXCEPT !.icon =
                                            IF first THEN platform.platform_badge ELSE None]),
                            platform, files, j + 1, FALSE)
             ELSE BoilFiles(acc, platform, files, j + 1, first)

\* the loop over platforms for one version; `first` starts TRUE for each platform
RECURSIVE BoilPlatforms(_, _, _, _)
BoilPlatforms(acc, ps, files, p) ==
    IF p > Len(ps) THEN acc
    ELSE BoilPlatforms(BoilFiles(acc, ps[p], files, 1, TRUE), ps, files, p + 1)

\* boil_push without the is_empty test
boil_push_always(rows, row) == Append(rows, row)

\* a row is pushed only when it has downloads
boil_push(rows, row) == IF row.downloads # <<>> THEN Append(rows, row) ELSE rows

RECURSIVE BoilFrom(_, _, _, _)
BoilFrom(rows, bs, ps, i) ==
    IF i > Len(bs) THEN rows
    ELSE BoilFrom(boil_push(rows, [version   |-> bs[i].version,
                                   downloads |-> BoilPlatforms(<<>>, ps, bs[i].files, 1)]),
                  bs, ps, i + 1)

boil(bs, ps) == BoilFrom(<<>>, bs, ps, 1)

-----------------------------------------------------------------------------
(* Assembly. *)

Indeterminate == <<"i", "n", "d", "e", "t", "e", "r", "m", "i", "n", "a", "t", "e">>

\* app_version_of taking the last bucket
app_version_of_last(bs) == IF bs # <<>> THEN bs[Len(bs)].version ELSE Indeterminate

app_version_of(bs) == IF bs # <<>> THEN bs[1].version ELSE Indeterminate

-----------------------------------------------------------------------------
(* The input space: the three source documents and the two arguments. *)

Name_1_9_0 == <<"1", "_", "9", "_", "0">>
Name_1_10_0 == <<"1", "_", "1", "0", "_", "0">>
Name_1dot9_0 == <<"1", ".", "9", "_", "0">>
Name_misc == <<"m", "i", "s", "c">>

\* names of the root's children: version directories, two of which give the
\* same version, and a stray entry without an underscore
DirNames == {Name_1_9_0, Name_1_10_0, Name_1dot9_0, Name_misc}

FileA == <<"a", ".", "x">>
FileG == <<"g", ".", "x">>

\* listings of one version directory
FileLists == {<<>>, <<FileA>>, <<FileG>>, <<FileA, FileG>>}

Leaf(name) == [name |-> name, is_dir |-> FALSE, children |-> <<>>]

Dir(name, files) ==
    [name |-> name, is_dir |-> TRUE,
     children |-> [j \in 1..Len(files) |-> Leaf(files[j])]]

Root(children) == [name |-> <<".">>, is_dir |-> TRUE, children |-> children]

DirNodes == {Dir(n, fl) : n \in DirNames, fl \in FileLists}

\* every snapshot with at most MaxDirs children under the root; the names of
\* a directory listing are distinct
Snapshots ==
    {Root(cs) : cs \in {s \in SeqsUpTo(DirNodes, MaxDirs) :
                           \A i \in 1..Len(s), j \in 1..Len(s) :
                               s[i].name = s[j].name => i = j}}

SmallStandards ==
    { Root(<<Dir(Name_1_9_0, <<FileA>>), Dir(Name_1_10_0, <<FileA>>)>>),
      Root(<<Dir(Name_1dot9_0, <<FileG>>), Dir(Name_misc, <<FileA>>), Dir(Name_1_9_0, <<FileA>>)>>) }

\* a node with the is_dir flag the document gives it
Node(name, is_dir, children) == [name |-> name, is_dir |-> is_dir, children |-> children]

\* the third snapshot has a child with children that is flagged as a file, a
\* file flagged as a directory and a directory without children
SmallGolds ==
    { Root(<<Dir(Name_1_9_0, <<FileG>>)>>),
      Root(<<Dir(Name_1_10_0, <<FileA>>)>>),
      Root(<<Node(Name_1_10_0, TRUE, <<>>),
             Node(Name_1_9_0, FALSE, <<Node(FileG, TRUE, <<>>), Leaf(FileA)>>),
             Node(Name_misc, TRUE, <<Leaf(FileA)>>)>>) }

SmallSnapshotPairs ==
    { <<Root(<<Dir(Name_1_9_0, <<FileA>>), Dir(Name_1_10_0, <<FileA>>)>>),
        Root(<<Dir(Name_1_9_0, <<FileG>>)>>)>>,
      <<Root(<<Dir(Name_1_9_0, <<FileA>>)>>), Root(<<>>)>> }

PresetUrl == <<"p", ".", "o">>

Download(name, filename, gold, download_url) ==
    [name |-> name, icon |-> Some("icon"), url |-> None, download_url |-> download_url,
     filename |-> filename, gold |-> gold]

\* catalog entries: with and without a filename, gold or not, and one that
\* has a download_url in the document already
Entries(name) ==
    {Download(name, f, g, None) : f \in {None, Some(FileA), Some(FileG)}, g \in BOOLEAN}
    \cup {Download(name, None, FALSE, Some(PresetUrl))}

DownloadNames == <<"d1", "d2", "d3", "d4">>

\* the lists of at most MaxDownloads entries; the j-th entry is named DownloadNames[j]
DownloadLists ==
    UNION {{[j \in 1..k |-> [es[j] EXCEPT !.name = DownloadNames[j]]] :
               es \in [1..k -> Entries("d")]} : k \in 0..MaxDownloads}

Platform(title, badge, ds) ==
    [title |-> title, platform_badge |-> badge, platform_key |-> title, downloads |-> ds]

PlatformTitles == <<"p1", "p2", "p3", "p4">>

\* the catalogs of at most MaxPlatforms platforms, with and without a badge
Catalogs ==
    UNION {{[j \in 1..k |-> Platform(PlatformTitles[j], bd[j][1], bd[j][2])] :
               bd \in [1..k -> {None, Some("badge")} \X DownloadLists]} : k \in 0..MaxPlatforms}

SmallCatalogs ==
    { << Platform("p1", Some("badge1"),
                  <<Download("d1", Some(FileA), FALSE, None),
                    Download("d2", Some(FileG), TRUE, None)>>),
         Platform("p2", Some("badge2"),
                  <<Download("d1", Some(FileG), FALSE, Some(PresetUrl)),
                    Download("d2", None, FALSE, Some(PresetUrl)),
                    Download("d3", Some(FileA), TRUE, None)>>) >>,
      << Platform("p1", None,
                  <<Download("d1", Some(FileA), TRUE, None),
                    Download("d2", Some(FileA), FALSE, None),
                    Download("d3", Some(FileG), FALSE, None)>>) >> }

UrlBase == <<"s", ".", "o">>

DocStates == {"ok", "missing", "malformed"}

Doc(state, content) == [state |-> state, content |-> content]

Disk(std, gold, catalog) ==
    [downloads |-> std, downloads_gold |-> gold, platform |-> catalog]

\* The documents on disk and the `production` argument. One document ranges
\* over its whole bounded set while the other two range over a few fixed
\* documents; a fourth family makes documents missing or malformed.
InitInputs ==
    \/ /\ \E s \in Snapshots, g \in SmallGolds, c \in SmallCatalogs :
             fs = Disk(Doc("ok", s), Doc("ok", g), Doc("ok", c))
       /\ production = FALSE
    \/ /\ \E s \in SmallStandards, g \in Snapshots, c \in SmallCatalogs :
             fs = Disk(Doc("ok", s), Doc("ok", g), Doc("ok", c))
       /\ production = TRUE
    \/ /\ \E sg \in SmallSnapshotPairs, c \in Catalogs :
             fs = Disk(Doc("ok", sg[1]), Doc("ok", sg[2]), Doc("ok", c))
       /\ production = FALSE
    \/ /\ \E a \in DocStates, b \in DocStates, c \in DocStates :
             fs = Disk(Doc(a, Root(<<>>)), Doc(b, Root(<<>>)), Doc(c, <<>>))
       /\ production \in BOOLEAN

-----------------------------------------------------------------------------
(* GlobalMeta::new, one action per statement group. *)

NoFile == Root(<<>>)

Init ==
    /\ pc = "start"
    /\ InitInputs
    /\ url_base = UrlBase
    /\ downloads = NoFile
    /\ downloads_gold = NoFile
    /\ platforms = <<>>
    /\ version_binaries = <<>>
    /\ file_versions = EmptyMap
    /\ version_downloads = <<>>
    /\ outcome = "running"
    /\ published = None

\* the three std::fs::read_to_string(..)? calls: the first one that fails
\* returns its io::Error to the caller
ReadFiles ==
    /\ pc = "start"
    /\ IF \E d \in DOMAIN fs : fs[d].state = "missing"
       THEN /\ pc' = "returned"
            /\ outcome' = "IOError"
       ELSE /\ pc' = "read"
            /\ UNCHANGED outcome
    /\ UNCHANGED <<production, url_base, fs, downloads, downloads_gold, platforms,
                   version_binaries, file_versions, version_downloads, published>>

\* the three serde_json::from_str(..).unwrap() calls: unwrap panics on Err
Deserialize ==
    /\ pc = "read"
    /\ IF \E d \in DOMAIN fs : fs[d].state = "malformed"
       THEN /\ pc' = "panicked"
            /\ outcome' = "panic"
            /\ UNCHANGED <<downloads, downloads_gold, platforms>>
       ELSE /\ pc' = "deserialized"
            /\ downloads' = fs.downloads.content
            /\ downloads_gold' = fs.downloads_gold.content
            /\ platforms' = fs.platform.content
            /\ UNCHANGED outcome
    /\ UNCHANGED <<production, url_base, fs, version_binaries, file_versions,
                   version_downloads, published>>

ParseFiles ==
    /\ pc = "deserialized"
    /\ version_binaries' = parse_files(downloads, downloads_gold)
    /\ pc' = "parsed"
    /\ UNCHANGED <<production, url_base, fs, downloads, downloads_gold, platforms,
                   file_versions, version_downloads, outcome, published>>

Pivot ==
    /\ pc = "parsed"
    /\ file_versions' = pivot(version_binaries)
    /\ pc' = "pivoted"
    /\ UNCHANGED <<production, url_base, fs, downloads, downloads_gold, platforms,
                   version_binaries, version_downloads, outcome, published>>

ResolveUrls ==
    /\ pc = "pivoted"
    /\ platforms' = resolve_urls(platforms, file_versions, url_base)
    /\ pc' = "resolved"
    /\ UNCHANGED <<production, url_base, fs, downloads, downloads_gold,
                   version_binaries, file_versions, version_downloads, outcome, published>>

Boil ==
    /\ pc = "resolved"
    /\ version_downloads' = boil(version_binaries, platforms)
    /\ pc' = "boiled"
    /\ UNCHANGED <<production, url_base, fs, downloads, downloads_gold, platforms,
                   version_binaries, file_versions, outcome, published>>

Assemble ==
    /\ pc = "boiled"
    /\ published' = Some([app_version       |-> app_version_of(version_binaries),
                          prod              |-> production,
                          platforms         |-> platforms,
                          version_downloads |-> version_downloads])
    /\ outcome' = "Ok"
    /\ pc' = "returned"
    /\ UNCHANGED <<production, url_base, fs, downloads, downloads_gold, platforms,
                   version_binaries, file_versions, version_downloads>>

Next ==
    \/ ReadFiles
    \/ Deserialize
    \/ ParseFiles
    \/ Pivot
    \/ ResolveUrls
    \/ Boil
    \/ Assemble

Spec == Init /\ [][Next]_vars

-----------------------------------------------------------------------------
(* Properties. *)

\* the call returned Ok(GlobalMeta)
Finished == pc = "returned" /\ outcome = "Ok"

Meta == Unwrap(published)

\* version_binaries holds the result of parse_files
AfterParse == pc \in {"parsed", "pivoted", "resolved", "boiled"} \/ Finished

\* file_versions holds the result of pivot
AfterPivot == pc \in {"pivoted", "resolved", "boiled"} \/ Finished

\* the catalog as it was deserialized
Catalog == fs.platform.content

\* the positions <<p, d>> of the catalog's entries
EntryPositions(ps) == {<<p, d>> \in (1..Len(ps)) \X (1..4) : d <= Len(ps[p].downloads)}

\* the entry's filename is a key of the pivot table
Resolves(e) == IsSome(e.filename) /\ e.filename[1] \in DOMAIN file_versions

\* the index of the first bucket whose files contain f
FirstBucketWith(f) ==
    CHOOSE i \in 1..Len(version_binaries) :
        /\ f \in Range(version_binaries[i].files)
        /\ \A k \in 1..(i - 1) : f \notin Range(version_binaries[k].files)

AllFiles == UNION {Range(version_binaries[i].files) : i \in 1..Len(version_binaries)}

\* C1: in the published catalog, every entry whose filename is a key of the
\* pivot table has download_url = url_base + "/api/goldfiles/" + v + "/" + filename
\* when gold and url_base + "/files/" + v + "/" + filename otherwise, where v is
\* pivot[filename][0] with every '.' replaced by '_'.
ClaimC1 ==
    Finished =>
        \A pd \in EntryPositions(Meta.platforms) :
            LET e == Meta.platforms[pd[1]].downloads[pd[2]]
                f == e.filename[1]
                v == file_versions[f][1]
                segment == [i \in 1..Len(v) |-> IF v[i] = "." THEN "_" ELSE v[i]]
            IN  Resolves(e) =>
                    e.download_url =
                        Some(url_base
                             \o (IF e.gold THEN GoldSegment ELSE FilesSegment)
                             \o segment \o <<"/">> \o f)

\* a gold and a plain entry are both resolved, one of them to the newest of
\* two versions
WitnessC1 ==
    /\ Finished
    /\ \E pd \in EntryPositions(Meta.platforms), qd \in EntryPositions(Meta.platforms) :
          LET e == Meta.platforms[pd[1]].downloads[pd[2]]
              g == Meta.platforms[qd[1]].downloads[qd[2]]
          IN  /\ Resolves(e) /\ ~e.gold /\ IsSome(e.download_url)
              /\ Resolves(g) /\ g.gold /\ IsSome(g.download_url)
              /\ Len(file_versions[e.filename[1]]) >= 2
              /\ file_versions[e.filename[1]][1] # file_versions[e.filename[1]][2]

\* C2 as stated: in the published catalog download_url is set if and only if
\* the entry has a filename that is a key of the pivot table, also when the
\* catalog document already carries a download_url.
ClaimC2_AsStated ==
    Finished =>
        \A pd \in EntryPositions(Meta.platforms) :
            LET e == Meta.platforms[pd[1]].downloads[pd[2]]
            IN  IsSome(e.download_url) <=> Resolves(e)

\* C2, amended: in the published catalog an entry whose filename is a key of
\* the pivot table has download_url set; an entry with no filename or an
\* unresolved filename keeps the download_url it was deserialized with, so it
\* is set if and only if the catalog document set it.
ClaimC2 ==
    Finished =>
        /\ Len(Meta.platforms) = Len(Catalog)
        /\ \A p \in 1..Len(Catalog) :
              Len(Meta.platforms[p].downloads) = Len(Catalog[p].downloads)
        /\ \A pd \in EntryPositions(Meta.platforms) :
              LET e == Meta.platforms[pd[1]].downloads[pd[2]]
                  o == Catalog[pd[1]].downloads[pd[2]]
              IN  /\ Resolves(e) => IsSome(e.download_url)
                  /\ ~Resolves(e) => e.download_url = o.download_url

\* an entry without a resolved filename is published with the download_url of
\* the document, next to a resolved entry and an unresolved entry without one
WitnessC2 ==
    /\ Finished
    /\ \E pd \in EntryPositions(Meta.platforms) :
          LET e == Meta.platforms[pd[1]].downloads[pd[2]]
          IN  ~Resolves(e) /\ IsSome(e.filename) /\ e.download_url = Some(PresetUrl)
    /\ \E pd \in EntryPositions(Meta.platforms) :
          LET e == Meta.platforms[pd[1]].downloads[pd[2]]
          IN  Resolves(e) /\ IsSome(e.download_url)
    /\ \E pd \in EntryPositions(Meta.platforms) :
          LET e == Meta.platforms[pd[1]].downloads[pd[2]]
          IN  ~Resolves(e) /\ e.download_url = None

ClaimC4 ==
    AfterPivot =>
        \A f \in AllFiles :
            /\ f \in DOMAIN file_versions
            /\ file_versions[f] # <<>>
            /\ file_versions[f][1] = version_binaries[FirstBucketWith(f)].version

\* a filename is in two buckets of different versions
WitnessC4 ==
    /\ AfterPivot
    /\ \E f \in AllFiles :
          \E i \in 1..Len(version_binaries) :
              /\ i > FirstBucketWith(f)
              /\ f \in Range(version_binaries[i].files)
              /\ version_binaries[i].version # version_binaries[FirstBucketWith(f)].version

\* the <<filename, version>> pairs of the bucket list, bucket by bucket and
\* file by file
FileOccurrences ==
    Concat([i \in 1..Len(version_binaries) |->
               [j \in 1..Len(version_binaries[i].files) |->
                   <<version_binaries[i].files[j], version_binaries[i].version>>]])

\* the version of every occurrence of f, in the order of the bucket list
OccurrenceVersions(f) ==
    LET occ == SelectSeq(FileOccurrences, LAMBDA fv : fv[1] = f)
    IN  [k \in 1..Len(occ) |-> occ[k][2]]

\* s without the elements that occurred earlier in it
Dedup(s) ==
    LET keep == {k \in 1..Len(s) : \A h \in 1..(k - 1) : s[h] # s[k]}
        RECURSIVE Pick(_)
        Pick(k) == IF k > Len(s) THEN <<>>
                   ELSE IF k \in keep THEN <<s[k]>> \o Pick(k + 1) ELSE Pick(k + 1)
    IN  Pick(1)

\* C5 as stated: every key of the pivot table maps to the non-empty list of
\* the versions of the buckets containing it, each version once, in the
\* order of the bucket list.
ClaimC5_AsStated ==
    AfterPivot =>
        \A f \in DOMAIN file_versions :
            /\ file_versions[f] # <<>>
            /\ file_versions[f] = Dedup(OccurrenceVersions(f))

\* C5, amended: the keys of the pivot table are the filenames of the bucket
\* list, and every key maps to a non-empty list that holds, in the order of
\* the bucket list, the version of each bucket containing it once per
\* occurrence of the filename in that bucket's file list.
ClaimC5 ==
    AfterPivot =>
        /\ DOMAIN file_versions = AllFiles
        /\ \A f \in DOMAIN file_versions :
              /\ file_versions[f] # <<>>
              /\ file_versions[f] = OccurrenceVersions(f)

\* a filename is listed twice in one bucket and its version is in the pivot
\* list twice
WitnessC5 ==
    /\ AfterPivot
    /\ \E i \in 1..Len(version_binaries) :
          \E j \in 1..Len(version_binaries[i].files), k \in 1..Len(version_binaries[i].files) :
              /\ j < k
              /\ version_binaries[i].files[j] = version_binaries[i].files[k]
              /\ Len(file_versions[version_binaries[i].files[j]]) >= 2
              /\ file_versions[version_binaries[i].files[j]][1]
                    = file_versions[version_binaries[i].files[j]][2]

\* version_downloads holds the result of boil
AfterBoil == pc = "boiled" \/ Finished

\* the platform has an entry for the filename
Matches(platform, f) ==
    \E d \in 1..Len(platform.downloads) : platform.downloads[d].filename = Some(f)

\* the filenames of the bucket that match an entry of the platform, in the
\* order of the bucket's file list
MatchedFiles(b, platform) == SelectSeq(b.files, LAMBDA f : Matches(platform, f))

\* the buckets with a filename that matches an entry of some platform
RowBuckets ==
    SelectSeq(version_binaries,
              LAMBDA b : \E p \in 1..Len(platforms) : MatchedFiles(b, platforms[p]) # <<>>)

\* the number of entries emitted for the bucket and the platforms before p
RECURSIVE PairOffset(_, _)
PairOffset(b, p) ==
    IF p = 1 THEN 0 ELSE PairOffset(b, p - 1) + Len(MatchedFiles(b, platforms[p - 1]))

\* the entries of row r emitted for platform p
PairEntries(r, p) ==
    LET b == RowBuckets[r]
    IN  SubSeq(version_downloads[r].downloads,
               PairOffset(b, p) + 1,
               PairOffset(b, p) + Len(MatchedFiles(b, platforms[p])))

\* C6: in the output of boil, among the entries emitted for one version row
\* and one platform at most one has an icon; the first entry of the pair is
\* the one of the first filename of the bucket's file list that matches an
\* entry of the platform and carries the platform's platform_badge, and every
\* later entry of the pair has no icon.
ClaimC6 ==
    AfterBoil =>
        /\ Len(version_downloads) = Len(RowBuckets)
        /\ \A r \in 1..Len(version_downloads) :
              /\ Len(version_downloads[r].downloads)
                    = PairOffset(RowBuckets[r], Len(platforms) + 1)
              /\ \A p \in 1..Len(platforms) :
                    LET es == PairEntries(r, p)
                        mf == MatchedFiles(RowBuckets[r], platforms[p])
                    IN  /\ Cardinality({k \in 1..Len(es) : es[k].icon # None}) <= 1
                        /\ \A k \in 1..Len(es) :
                              /\ es[k].filename = Some(mf[k])
                              /\ k = 1 => es[k].icon = platforms[p].platform_badge
                              /\ k > 1 => es[k].icon = None

\* a row holds two entries for each of two platforms with a badge, and the
\* second platform lists the two filenames in the other order than the bucket
WitnessC6 ==
    /\ AfterBoil
    /\ Len(platforms) = 2
    /\ \E r \in 1..Len(version_downloads) :
          /\ \A p \in 1..2 :
                /\ Len(PairEntries(r, p)) = 2
                /\ PairEntries(r, p)[1].icon = platforms[p].platform_badge
                /\ IsSome(platforms[p].platform_badge)
                /\ PairEntries(r, p)[2].icon = None
          /\ PairEntries(r, 2)[1].filename # platforms[2].downloads[1].filename

\* C7: version_downloads, as returned by boil and as published, has no row
\* with an empty downloads sequence; its rows are those of the buckets with a
\* filename that matches a catalog entry, in the order of the bucket list.
ClaimC7 ==
    /\ AfterBoil =>
          /\ \A r \in 1..Len(version_downloads) : version_downloads[r].downloads # <<>>
          /\ [r \in 1..Len(version_downloads) |-> version_downloads[r].version]
                = [r \in 1..Len(RowBuckets) |-> RowBuckets[r].version]
    /\ Finished =>
          /\ Meta.version_downloads = version_downloads
          /\ \A r \in 1..Len(Meta.version_downloads) :
                Meta.version_downloads[r].downloads # <<>>

\* the newest bucket has a file and no match, an older bucket has a row
WitnessC7 ==
    /\ Finished
    /\ Len(version_binaries) = 2
    /\ version_binaries[1].files # <<>>
    /\ \A p \in 1..Len(platforms) : MatchedFiles(version_binaries[1], platforms[p]) = <<>>
    /\ Len(Meta.version_downloads) = 1
    /\ Meta.version_downloads[1].version = version_binaries[2].version

\* the standard and the gold snapshot on disk
Standard == fs.downloads.content
Gold == fs.downloads_gold.content

\* the root's children from which a bucket is extracted
BucketChildren(root) ==
    {k \in 1..Len(root.children) :
        root.children[k].children # <<>> /\ Contains(root.children[k].name, "_")}

\* the version of the bucket extracted from child k
ChildVersion(root, k) ==
    [i \in 1..Len(root.children[k].name) |->
        IF root.children[k].name[i] = "_" THEN "." ELSE root.children[k].name[i]]

\* the gold buckets whose version is the version of no standard bucket
OrphanGold ==
    {k \in BucketChildren(Gold) :
        \A s \in BucketChildren(Standard) : ChildVersion(Standard, s) # ChildVersion(Gold, k)}

\* the snapshot without the root's child k
WithoutChild(root, k) ==
    [root EXCEPT !.children =
        [i \in 1..(Len(root.children) - 1) |->
            IF i < k THEN root.children[i] ELSE root.children[i + 1]]]

\* the GlobalMeta built from the given documents and the call's arguments
MetaOf(std, gold, catalog) ==
    LET bs == parse_files(std, gold)
        ps == resolve_urls(catalog, pivot(bs), url_base)
    IN  [app_version       |-> app_version_of(bs),
         prod              |-> production,
         platforms         |-> ps,
         version_downloads |-> boil(bs, ps)]

AllOk == \A d \in DOMAIN fs : fs[d].state = "ok"

Ended == pc \in {"returned", "panicked"}

\* C8: when the three documents are well-formed the call returns Ok whatever
\* the gold snapshot holds, and for every gold bucket whose version equals no
\* standard bucket's version the published GlobalMeta is the one built from
\* the same documents with that gold bucket removed.
ClaimC8 ==
    (Ended /\ AllOk) =>
        /\ Finished
        /\ \A k \in OrphanGold : Meta = MetaOf(Standard, WithoutChild(Gold, k), Catalog)

\* a gold bucket without a standard bucket of its version holds a file that
\* the catalog names and no bucket has: its entry is published unresolved
WitnessC8 ==
    /\ Finished
    /\ BucketChildren(Standard) # {}
    /\ \E k \in OrphanGold :
          \E pd \in EntryPositions(Meta.platforms) :
              LET e == Meta.platforms[pd[1]].downloads[pd[2]]
              IN  /\ IsSome(e.filename)
                  /\ e.filename[1] = Gold.children[k].children[1].name
                  /\ ~Resolves(e)
                  /\ e.download_url = None

\* C9: app_version is the version of the first bucket of the sorted bucket
\* list, which no extracted standard version exceeds in natural order; it is
\* "indeterminate" exactly when no bucket is extracted from the standard
\* snapshot, whatever the gold snapshot holds, and then version_downloads is
\* empty.
ClaimC9 ==
    Finished =>
        /\ version_binaries # <<>> <=> BucketChildren(Standard) # {}
        /\ version_binaries # <<>> => Meta.app_version = version_binaries[1].version
        /\ \A k \in BucketChildren(Standard) :
              natord_compare(Meta.app_version, ChildVersion(Standard, k)) # "Less"
        /\ Meta.app_version = Indeterminate <=> BucketChildren(Standard) = {}
        /\ BucketChildren(Standard) = {} => Meta.version_downloads = <<>>

\* no bucket in the standard snapshot, one in the gold snapshot
WitnessC9 ==
    /\ Finished
    /\ Standard.children # <<>>
    /\ BucketChildren(Standard) = {}
    /\ BucketChildren(Gold) # {}
    /\ Meta.app_version = Indeterminate
    /\ Meta.version_downloads = <<>>

\* C10 as stated: with a document missing the call fails with an IOError
\* value, with the documents readable and one of them malformed it fails with
\* a ParseError value, and in both cases nothing is published.
ClaimC10_AsStated ==
    Ended =>
        /\ (\E d \in DOMAIN fs : fs[d].state = "missing")
              => (pc = "returned" /\ outcome = "IOError" /\ published = None)
        /\ ((\A d \in DOMAIN fs : fs[d].state # "missing")
            /\ (\E d \in DOMAIN fs : fs[d].state = "malformed"))
              => (pc = "returned" /\ outcome = "ParseError" /\ published = None)

\* the standard buckets as extracted and sorted, before the merge
SortedStandard == sort_by(to_binaries_per_version(downloads))

\* the files of the gold buckets of the given version, in the order of the
\* gold listing
GoldFilesOf(version) ==
    LET gs == SelectSeq(to_binaries_per_version(downloads_gold),
                        LAMBDA g : g.version = version)
    IN  Concat([k \in 1..Len(gs) |-> gs[k].files])

\* C11 as stated: after parse_files every sorted standard bucket holds the
\* files of its standard directory, in order, followed by the files of the
\* gold buckets of exactly its version, also when two standard buckets share
\* a version; a bucket without a gold bucket of its version is unchanged.
ClaimC11_AsStated ==
    AfterParse =>
        /\ Len(version_binaries) = Len(SortedStandard)
        /\ \A i \in 1..Len(version_binaries) :
              /\ version_binaries[i].version = SortedStandard[i].version
              /\ version_binaries[i].files
                    = SortedStandard[i].files \o GoldFilesOf(SortedStandard[i].version)

\* the n-th of the root's children from which a bucket is extracted
NthBucketChild(root, n) ==
    CHOOSE k \in BucketChildren(root) :
        Cardinality({j \in BucketChildren(root) : j <= k}) = n

\* what the claim says to_binaries_per_version returns for the snapshot: one
\* bucket per child with children and an underscore in its name, in the
\* order of the listing
ExpectedBuckets(root) ==
    [n \in 1..Cardinality(BucketChildren(root)) |->
        LET c == root.children[NthBucketChild(root, n)]
        IN  [version |-> [i \in 1..Len(c.name) |-> IF c.name[i] = "_" THEN "." ELSE c.name[i]],
             files   |-> [j \in 1..Len(c.children) |-> c.children[j].name]]]

\* the snapshots are deserialized and parse_files is about to run or has
\* just run on them
AfterDeserialize == pc \in {"deserialized", "parsed"}

\* C12: to_binaries_per_version emits one bucket for exactly the root's
\* children that have a child and an underscore in their name, whatever
\* their is_dir, with the underscores of the name as dots for version and the
\* names of the children for files, in the order of the listing; the bucket
\* list of parse_files has one bucket per emitted standard bucket.
ClaimC12 ==
    /\ AfterDeserialize =>
          /\ to_binaries_per_version(downloads) = ExpectedBuckets(downloads)
          /\ to_binaries_per_version(downloads_gold) = ExpectedBuckets(downloads_gold)
    /\ AfterParse =>
          /\ Len(version_binaries) = Cardinality(BucketChildren(downloads))
          /\ \A n \in 1..Len(version_binaries) :
                \E k \in BucketChildren(downloads) :
                    version_binaries[n].version = ExpectedBuckets(downloads)[
                        Cardinality({j \in BucketChildren(downloads) : j <= k})].version

\* a child flagged as a file is emitted with its two files, after a
\* directory without children and before a child without underscore, both
\* skipped; its files reach the standard bucket of its version
WitnessC12 ==
    /\ AfterParse
    /\ Len(downloads_gold.children) = 3
    /\ BucketChildren(downloads_gold) = {2}
    /\ ~downloads_gold.children[2].is_dir
    /\ downloads_gold.children[1].is_dir
    /\ downloads_gold.children[2].children[1].is_dir
    /\ Len(to_binaries_per_version(downloads_gold)[1].files) = 2
    /\ Len(downloads.children) = 2
    /\ BucketChildren(downloads) = {2}
    /\ Len(version_binaries) = 1
    /\ Len(version_binaries[1].files) = 2 + Len(downloads.children[2].children)

\* the position in the platform's downloads of the first entry with the filename
FirstEntryWith(platform, f) ==
    CHOOSE d \in 1..Len(platform.downloads) :
        /\ platform.downloads[d].filename = Some(f)
        /\ \A h \in 1..(d - 1) : platform.downloads[h].filename # Some(f)

\* the URL of the file in the newest bucket that contains it
NewestUrl(f, gold) ==
    LET v == version_binaries[FirstBucketWith(f)].version
    IN  url_base \o (IF gold THEN GoldSegment ELSE FilesSegment)
        \o [i \in 1..Len(v) |-> IF v[i] = "." THEN "_" ELSE v[i]] \o <<"/">> \o f

\* C13: in boil, for every version, platform and occurrence of a filename in
\* the version's files one entry is emitted if the platform has an entry with
\* that filename and none otherwise; the emitted entry is the first such
\* entry of the platform in catalog order, equal to that URL-resolved catalog
\* entry in every field but icon, so that its download_url is the URL of the
\* newest version also in the rows of older versions.
ClaimC13 ==
    AfterBoil =>
        /\ Len(version_downloads) = Len(RowBuckets)
        /\ \A r \in 1..Len(version_downloads) :
              /\ version_downloads[r].version = RowBuckets[r].version
              /\ Len(version_downloads[r].downloads)
                    = PairOffset(RowBuckets[r], Len(platforms) + 1)
              /\ \A p \in 1..Len(platforms) :
                    LET es == PairEntries(r, p)
                        mf == MatchedFiles(RowBuckets[r], platforms[p])
                    IN  \A k \in 1..Len(es) :
                            LET o == platforms[p].downloads[FirstEntryWith(platforms[p], mf[k])]
                            IN  /\ es[k] = [o EXCEPT !.icon = es[k].icon]
                                /\ es[k].download_url = Some(NewestUrl(mf[k], o.gold))
        /\ Finished => (Meta.platforms = platforms /\ Meta.version_downloads = version_downloads)

\* a platform names a file twice, gold first; the file is in two buckets of
\* different versions, and the row of the older one holds the first entry
\* with the URL of the newer version
WitnessC13 ==
    /\ Finished
    /\ Len(version_downloads) = 2
    /\ version_downloads[1].version # version_downloads[2].version
    /\ \E p \in 1..Len(platforms) :
          /\ Len(PairEntries(2, p)) >= 1
          /\ LET e == PairEntries(2, p)[1]
                 f == e.filename[1]
             IN  /\ Cardinality({d \in 1..Len(platforms[p].downloads) :
                                    platforms[p].downloads[d].filename = Some(f)}) = 2
                 /\ e.name = platforms[p].downloads[FirstEntryWith(platforms[p], f)].name
                 /\ e.gold
                 /\ f \in Range(version_binaries[1].files)
                 /\ e.download_url = Some(NewestUrl(f, TRUE))
                 /\ version_binaries[FirstBucketWith(f)].version = version_downloads[1].version

====
